---- MODULE Spec2Model ----
(***************************************************************************)
(* Model of nu_plugin_explore_ir: the navigation state machine of          *)
(* src/src/ui.rs (block stack, jump list, goto prompt, transient error,    *)
(* session loop), the set-up and release of the terminal around it         *)
(* (ExploreIr::run in src/src/main.rs, ui::start) and the source-code      *)
(* highlight compositor (source_code_ui).                                  *)
(*                                                                         *)
(* The widgets come from ratatui (ListState, List, Text).  Their           *)
(* behaviour is modelled at the call sites in ui.rs:                       *)
(*   ListState::default()        selected = None                           *)
(*   select_first()              selected = Some(0)                        *)
(*   select_next()               selected = Some(i.saturating_add(1)),     *)
(*                               Some(0) when nothing is selected          *)
(*   select_previous()           selected = Some(i.saturating_sub(1)),     *)
(*                               Some(usize::MAX) when nothing is selected *)
(*   rendering a List            an empty list area returns at once; an    *)
(*                               empty list selects None; a selected index *)
(*                               >= items.len() becomes items.len() - 1    *)
(***************************************************************************)
EXTENDS Integers, Sequences, FiniteSets, TLC

(***************************************************************************)
(* Bounds of the model.                                                    *)
(***************************************************************************)
\* longest source text given to the compositor, besides ExampleSource
MaxSrcLen == 3
\* longest jump list explored (Vec<JumpState> is unbounded in the program)
MaxJumps == 2
\* longest goto prompt buffer explored (String is unbounded in the program)
MaxBuf == 1
\* how far past the list (or below usize::MAX) a selection may stand when a
\* draw that does not render the list leaves it there
MaxOverrun == 1

(***************************************************************************)
(* Machine integers.  usize and i64 are modelled with a reduced width so   *)
(* that the values fit TLC's integers: usize is 31 bits wide here, and     *)
(* i64::MAX sits below usize::MAX as it does on a 64-bit target.           *)
(***************************************************************************)
UsizeMax == 2147483647
I64Max == 1073741823

\* Option<usize>::None of ListState.selected
NoSel == -1
\* Option<String>::None of State.error
NoError == "<none>"

saturating_add(i) == IF i = UsizeMax THEN UsizeMax ELSE i + 1
saturating_sub(i) == IF i = 0 THEN 0 ELSE i - 1

(***************************************************************************)
(* The compiled program the session explores: what the host's `view ir`    *)
(* returns for each block.  An instruction is [kind, arg]:                  *)
(*   "call"      Instruction::Call, arg = decl_id                          *)
(*   "block" / "closure" / "rowcond"                                       *)
(*               Instruction::LoadLiteral of Literal::Block / Closure /    *)
(*               RowCondition, arg = block_id                              *)
(*   "literal"   Instruction::LoadLiteral of any other literal             *)
(*   "branch"    an instruction whose branch_target() is Some(arg)         *)
(*   "plain"     any other instruction                                     *)
(***************************************************************************)
Inst(kind, arg) == [kind |-> kind, arg |-> arg]

\* an identifier that does not fit i64 (i64::try_from fails)
HugeId == I64Max + 1

BlockIds == 0 .. 2

\* ViewIrOutput.ir_block.instructions of each block
Code(b) ==
  CASE b = 0 -> << Inst("literal", 0), Inst("call", 0), Inst("branch", 0) >>
    [] b = 1 -> << Inst("block", 2), Inst("closure", 2), Inst("rowcond", 2),
                   Inst("call", HugeId) >>
    [] b = 2 -> << >>

\* the block a declaration compiles to (`view ir --decl-id`)
DeclBlock(d) == IF d = 0 THEN 1 ELSE 0

\* the targets `explore ir` is started with
InitialIds == {0, 2}

\* BlockState as data::get returns it: list_state is ListState::default()
BlockState(b) == [id |-> b, selected |-> NoSel]

\* data::get: the host may fail the call (Err) or return the block
data_get(target, is_decl_id) ==
  {[ok |-> FALSE, block |-> BlockState(0)]} \cup
  (IF is_decl_id
     THEN {[ok |-> TRUE, block |-> BlockState(DeclBlock(target))]}
     ELSE IF target \in BlockIds
            THEN {[ok |-> TRUE, block |-> BlockState(target)]}
            ELSE {})

\* Instruction::branch_target
branch_target(instruction) ==
  IF instruction.kind = "branch" THEN instruction.arg ELSE NoSel

(***************************************************************************)
(* Text and the source-code highlight compositor (source_code_ui).         *)
(* A string is a sequence of characters, a Text a sequence of lines, a     *)
(* line a sequence of spans, a span a string with a style.                 *)
(***************************************************************************)
LF == "\n"
CR == "\r"

\* str::split_at
split_at(str, mid) == << SubSeq(str, 1, mid), SubSeq(str, mid + 1, Len(str)) >>

\* position of the first line feed of str, 0 when it has none
RECURSIVE find_lf(_, _)
find_lf(str, i) ==
  IF i > Len(str) THEN 0
  ELSE IF str[i] = LF THEN i ELSE find_lf(str, i + 1)

\* str::lines: split after each "\n"; each piece loses its "\n" and then a
\* "\r" before it; no piece follows a final "\n"
RECURSIVE lines(_)
lines(str) ==
  IF str = << >> THEN << >>
  ELSE LET k == find_lf(str, 1) IN
       IF k = 0 THEN << str >>
       ELSE LET piece == SubSeq(str, 1, k - 1)
                line == IF piece # << >> /\ piece[Len(piece)] = CR
                          THEN SubSeq(piece, 1, Len(piece) - 1)
                          ELSE piece
            IN << line >> \o lines(SubSeq(str, k + 1, Len(str)))

\* Span::raw and Span::styled with the highlight style
span_raw(str) == [content |-> str, highlighted |-> FALSE]
span_styled(str) == [content |-> str, highlighted |-> TRUE]

\* Line::raw: one span per line of the content (none for "")
line_raw(str) == [i \in 1 .. Len(lines(str)) |-> span_raw(lines(str)[i])]
\* Line::styled with the highlight style
line_styled(str) == [i \in 1 .. Len(lines(str)) |-> span_styled(lines(str)[i])]
\* Line::from(Span)
line_from_span(span) == << span >>

\* Text::push_line
push_line(t, line) == Append(t, line)
\* Text::push_span: onto the last line, or as a first line
push_span(t, span) ==
  IF t = << >> THEN << line_from_span(span) >>
  ELSE [t EXCEPT ![Len(t)] = Append(t[Len(t)], span)]
\* Text::extend with a sequence of lines
extend(t, ls) == t \o ls

\* Text::raw: one line per line of the content, one empty line for ""
text_raw(str) ==
  IF str = << >> THEN << line_raw(<< >>) >>
  ELSE [i \in 1 .. Len(lines(str)) |-> line_raw(lines(str)[i])]

\* nu_protocol::Span and Span::unknown()
SrcSpan(start, end) == [start |-> start, end |-> end]
span_unknown == SrcSpan(0, 0)

\* the span of the selected instruction: spans.get(index), else unknown
highlighted_span_of(block) ==
  IF block.selected # NoSel /\ block.selected < Len(block.spans)
    THEN block.spans[block.selected + 1]
    ELSE span_unknown

\* the test that chooses between highlighting and Text::raw
span_contained(highlighted_span, block_span) ==
  highlighted_span.start >= block_span.start
    /\ highlighted_span.end <= block_span.end

\* faulty variant: the lines after the first final line are not pushed
highlight_text_drops_final_lines(source, start, end) ==
  LET initial == split_at(source, start)[1]
      next == split_at(source, start)[2]
      highlighted == split_at(next, end - start)[1]
      final_part == split_at(next, end - start)[2]
      il == lines(initial)
      hl == lines(highlighted)
      fl == lines(final_part)
      t1 == extend(<< >>, [i \in 1 .. saturating_sub(Len(il)) |-> line_raw(il[i])])
      t2 == IF il # << >> THEN push_line(t1, line_raw(il[Len(il)])) ELSE t1
      t3 == IF hl # << >> THEN push_span(t2, span_styled(hl[1])) ELSE t2
      taken == saturating_sub(saturating_sub(Len(hl)))
      t4 == extend(t3, [i \in 1 .. taken |-> line_styled(hl[i + 1])])
      t5 == IF Len(hl) >= taken + 2
              THEN push_line(t4, line_from_span(span_styled(hl[taken + 2])))
              ELSE t4
  IN  IF fl # << >> THEN push_span(t5, span_raw(fl[1])) ELSE t5

\* the highlighting branch of source_code_ui
highlight_text(source, start, end) ==
  LET initial == split_at(source, start)[1]
      next == split_at(source, start)[2]
      highlighted == split_at(next, end - start)[1]
      final_part == split_at(next, end - start)[2]
      il == lines(initial)
      hl == lines(highlighted)
      fl == lines(final_part)
      \* the initial lines but the last
      t1 == extend(<< >>, [i \in 1 .. saturating_sub(Len(il)) |-> line_raw(il[i])])
      \* the unstyled part of the last initial line
      t2 == IF il # << >> THEN push_line(t1, line_raw(il[Len(il)])) ELSE t1
      \* the highlighted part of the last initial line
      t3 == IF hl # << >> THEN push_span(t2, span_styled(hl[1])) ELSE t2
      \* take(styled_line_count - 2) of the lines after the first
      taken == saturating_sub(saturating_sub(Len(hl)))
      t4 == extend(t3, [i \in 1 .. taken |-> line_styled(hl[i + 1])])
      \* the next line of the iterator, if one is left
      t5 == IF Len(hl) >= taken + 2
              THEN push_line(t4, line_from_span(span_styled(hl[taken + 2])))
              ELSE t4
      \* the unstyled part of the first final line
      t6 == IF fl # << >> THEN push_span(t5, span_raw(fl[1])) ELSE t5
  IN  \* the final lines
      extend(t6, [i \in 1 .. saturating_sub(Len(fl)) |-> line_raw(fl[i + 1])])

\* faulty variant: a span reaching outside the block is cut to the block
\* and highlighted instead of falling back to the plain text
source_code_ui_cuts_span(block) ==
  LET block_span == block.span
      highlighted_span == highlighted_span_of(block)
      lo == IF highlighted_span.start < block_span.start
              THEN block_span.start ELSE highlighted_span.start
      hi == IF highlighted_span.end > block_span.end
              THEN block_span.end ELSE highlighted_span.end
  IN IF lo <= hi
       THEN highlight_text(block.source, lo - block_span.start,
                           hi - block_span.start)
       ELSE text_raw(block.source)

\* source_code_ui: the Text given to the Paragraph
source_code_ui(block) ==
  LET block_span == block.span
      highlighted_span == highlighted_span_of(block)
  IN IF span_contained(highlighted_span, block_span)
       THEN highlight_text(block.source,
                           highlighted_span.start - block_span.start,
                           highlighted_span.end - block_span.start)
       ELSE text_raw(block.source)

(***************************************************************************)
(* State of the session.                                                   *)
(***************************************************************************)
VARIABLES
  blocks,         \* State.blocks: Vec<BlockState>, last = current block
  inst_list,      \* State.inst_list: number of items of the List widget
  jump_list,      \* State.jump_list: Vec<JumpState>
  should_quit,    \* State.should_quit
  show_inspector, \* State.show_inspector
  goto,           \* State.goto
  goto_contents,  \* State.goto_contents, a sequence of characters
  error,          \* State.error
  pc,             \* position in run and start: the call about to be made,
                  \* in the loop "draw" or "events", then "done", "returned"
                  \* or "panic"
  hist1,          \* the last key press handled and the state it was handled in
  hist2,          \* the key press before that, projected
  marks,          \* for each record of jump_list, the block it was pushed in
  view,           \* the block source_code_ui is given (compositor runs)
  text,           \* the Text source_code_ui builds for `view`
  stdio,          \* engine.is_using_stdio()
  initial_block,  \* run's initial_block: the Result of data::get
  raw_mode,       \* the terminal is in raw mode
  alt_screen,     \* the terminal shows the alternate screen
  result,         \* start's local `result`
  returned        \* what run has returned

navVars == << blocks, inst_list, jump_list, should_quit, show_inspector, goto,
              goto_contents, error, pc, hist1, hist2, marks >>
compVars == << view, text >>
sessVars == << stdio, initial_block, raw_mode, alt_screen, result, returned >>
vars == << navVars, compVars, sessVars >>

\* the compositor variables while the session model runs
NoView == [source |-> << >>, span |-> SrcSpan(0, 0), selected |-> NoSel,
           spans |-> << >>]
NoText == << >>

\* JumpState::IntoBlock and JumpState::Goto { previous }
JumpIntoBlock == [tag |-> "IntoBlock", previous |-> 0]
JumpGoto(previous) == [tag |-> "Goto", previous |-> previous]

Top(bs) == bs[Len(bs)]

\* io::Result<()> of start: Ok(()) or the error of the call that failed.
\* Untracked stands for the result in the runs that follow State only.
Ok == "Ok"
Untracked == "untracked"
NoReturn == "<running>"
NoBlock == [ok |-> FALSE, block |-> [id |-> 0, selected |-> NoSel]]

\* Result::and: the first error wins
result_and(res, other) == IF res = Ok THEN other ELSE res
SetTopSelected(bs, s) == [bs EXCEPT ![Len(bs)].selected = s]

\* make_instruction_list: one item per formatted instruction
make_instruction_list(b) == Len(Code(b))

\* restore_block_state
restore_block_state(bs) ==
  IF bs # << >> THEN make_instruction_list(Top(bs).id) ELSE 0

\* enter_block: push, then restore_block_state
enter_block(bs, block) == Append(bs, block)

(***************************************************************************)
(* go_forward: the outcomes of the closure.  Each outcome is the error     *)
(* reported (NoError on Ok) with the block stack and jump list it leaves.  *)
(***************************************************************************)
Outcome(err, bs, jl) ==
  [err |-> err, blocks |-> bs, jump_list |-> jl, calls |-> << >>]

\* a call of data::get: Value::int(id) with the is_decl_id flag
GetCall(id, is_decl_id) == [id |-> id, is_decl_id |-> is_decl_id]
\* the outcome of an arm that has called data::get
Called(out, id, is_decl_id) ==
  [out EXCEPT !.calls = Append(@, GetCall(id, is_decl_id))]

\* faulty variant: the jump record is pushed before data::get is tried
go_forward_enter_pushes_first(bs, jl, id, is_decl_id) ==
  IF id > I64Max
    THEN {Outcome("out of range integral type conversion attempted", bs, jl)}
    ELSE { Called(IF r.ok
                    THEN Outcome(NoError, enter_block(bs, r.block),
                                 Append(jl, JumpIntoBlock))
                    ELSE Outcome("view ir failed", bs, Append(jl, JumpIntoBlock)),
                  id, is_decl_id)
           : r \in {x \in data_get(id, is_decl_id) : Len(jl) < MaxJumps} }

\* the two arms that call data::get
go_forward_enter(bs, jl, id, is_decl_id) ==
  IF id > I64Max
    THEN {Outcome("out of range integral type conversion attempted", bs, jl)}
    ELSE { Called(IF r.ok
                    THEN Outcome(NoError, enter_block(bs, r.block),
                                 Append(jl, JumpIntoBlock))
                    ELSE Outcome("view ir failed", bs, jl),
                  id, is_decl_id)
           : r \in {x \in data_get(id, is_decl_id) : x.ok => Len(jl) < MaxJumps} }

\* faulty variant: a literal block is looked up as a declaration
go_forward_literal_as_decl(bs, jl) ==
  IF bs = << >> THEN {Outcome("not in a block", bs, jl)}
  ELSE
    LET block == Top(bs)
        index == block.selected
        instructions == Code(block.id)
    IN
    IF index = NoSel THEN {Outcome("nothing is selected", bs, jl)}
    ELSE IF index >= Len(instructions)
      THEN {Outcome("can't find selected instruction", bs, jl)}
    ELSE
      LET instruction == instructions[index + 1] IN
      CASE instruction.kind \in {"call", "block", "closure", "rowcond"} ->
             go_forward_enter(bs, jl, instruction.arg, TRUE)
        [] OTHER ->
             IF branch_target(instruction) # NoSel
               THEN IF Len(jl) < MaxJumps
                      THEN {Outcome(NoError,
                                    SetTopSelected(bs, branch_target(instruction)),
                                    Append(jl, JumpGoto(index)))}
                      ELSE {}
               ELSE {Outcome("nothing to jump to", bs, jl)}

go_forward(bs, jl) ==
  IF bs = << >> THEN {Outcome("not in a block", bs, jl)}
  ELSE
    LET block == Top(bs)
        index == block.selected
        instructions == Code(block.id)
    IN
    IF index = NoSel THEN {Outcome("nothing is selected", bs, jl)}
    ELSE IF index >= Len(instructions)
      THEN {Outcome("can't find selected instruction", bs, jl)}
    ELSE
      LET instruction == instructions[index + 1] IN
      CASE instruction.kind = "call" ->
             go_forward_enter(bs, jl, instruction.arg, TRUE)
        [] instruction.kind \in {"block", "closure", "rowcond"} ->
             go_forward_enter(bs, jl, instruction.arg, FALSE)
        [] OTHER ->
             IF branch_target(instruction) # NoSel
               THEN IF Len(jl) < MaxJumps
                      THEN {Outcome(NoError,
                                    SetTopSelected(bs, branch_target(instruction)),
                                    Append(jl, JumpGoto(index)))}
                      ELSE {}
               ELSE {Outcome("nothing to jump to", bs, jl)}

(***************************************************************************)
(* go_back                                                                 *)
(***************************************************************************)
\* faulty variants of go_back, used to test the properties below
go_back_forgets_previous(bs, jl) ==
  IF jl = << >>
    THEN Outcome("can't go back any further", bs, jl)
    ELSE
      LET rec == jl[Len(jl)]
          rest == SubSeq(jl, 1, Len(jl) - 1)
      IN
      IF rec.tag = "IntoBlock"
        THEN IF Len(bs) > 1
               THEN Outcome(NoError, SubSeq(bs, 1, Len(bs) - 1), rest)
               ELSE Outcome("unable to jump to the previous block", bs, rest)
        ELSE Outcome(NoError, bs, rest)

go_back_selects_first_on_empty(bs, jl) ==
  IF jl = << >>
    THEN Outcome("can't go back any further", SetTopSelected(bs, 0), jl)
    ELSE
      LET rec == jl[Len(jl)]
          rest == SubSeq(jl, 1, Len(jl) - 1)
      IN
      IF rec.tag = "IntoBlock"
        THEN IF Len(bs) > 1
               THEN Outcome(NoError, SubSeq(bs, 1, Len(bs) - 1), rest)
               ELSE Outcome("unable to jump to the previous block", bs, rest)
        ELSE Outcome(NoError, SetTopSelected(bs, rec.previous), rest)

go_back_pops_on_goto(bs, jl) ==
  IF jl = << >>
    THEN Outcome("can't go back any further", bs, jl)
    ELSE Outcome(NoError, SubSeq(bs, 1, Len(bs) - 1),
                 SubSeq(jl, 1, Len(jl) - 1))

\* faulty variant: an IntoBlock record is consumed without popping the block
go_back_keeps_block(bs, jl) ==
  IF jl = << >>
    THEN Outcome("can't go back any further", bs, jl)
    ELSE
      LET rec == jl[Len(jl)]
          rest == SubSeq(jl, 1, Len(jl) - 1)
      IN
      IF rec.tag = "IntoBlock"
        THEN Outcome(NoError, bs, rest)
        ELSE Outcome(NoError, SetTopSelected(bs, rec.previous), rest)

\* faulty variant: the block that comes back on top gets its first
\* instruction selected
go_back_resets_parent(bs, jl) ==
  IF jl = << >>
    THEN Outcome("can't go back any further", bs, jl)
    ELSE
      LET rec == jl[Len(jl)]
          rest == SubSeq(jl, 1, Len(jl) - 1)
      IN
      IF rec.tag = "IntoBlock"
        THEN IF Len(bs) > 1
               THEN Outcome(NoError,
                            SetTopSelected(SubSeq(bs, 1, Len(bs) - 1), 0), rest)
               ELSE Outcome("unable to jump to the previous block", bs, rest)
        ELSE Outcome(NoError, SetTopSelected(bs, rec.previous), rest)

go_back(bs, jl) ==
  IF jl = << >>
    THEN Outcome("can't go back any further", bs, jl)
    ELSE
      LET rec == jl[Len(jl)]
          rest == SubSeq(jl, 1, Len(jl) - 1)
      IN
      IF rec.tag = "IntoBlock"
        THEN IF Len(bs) > 1
               THEN Outcome(NoError, SubSeq(bs, 1, Len(bs) - 1), rest)
               ELSE Outcome("unable to jump to the previous block", bs, rest)
        ELSE Outcome(NoError, SetTopSelected(bs, rec.previous), rest)

(***************************************************************************)
(* str::parse::<usize> on the goto buffer.  An optional leading '+', then  *)
(* at least one decimal digit; the first bad digit or the first overflow   *)
(* decides the error.                                                      *)
(***************************************************************************)
Digits == {"0", "1", "2", "3", "4", "5", "6", "7", "8", "9"}

DigitVal(c) ==
  CASE c = "0" -> 0 [] c = "1" -> 1 [] c = "2" -> 2 [] c = "3" -> 3
    [] c = "4" -> 4 [] c = "5" -> 5 [] c = "6" -> 6 [] c = "7" -> 7
    [] c = "8" -> 8 [] c = "9" -> 9

ParseOk(v) == [ok |-> TRUE, value |-> v, err |-> NoError]
ParseErr(e) == [ok |-> FALSE, value |-> 0, err |-> e]

RECURSIVE parse_digits(_, _)
parse_digits(ds, acc) ==
  IF ds = << >> THEN ParseOk(acc)
  ELSE IF Head(ds) \notin Digits
    THEN ParseErr("invalid digit found in string")
  ELSE IF acc > (UsizeMax - DigitVal(Head(ds))) \div 10
    THEN ParseErr("number too large to fit in target type")
  ELSE parse_digits(Tail(ds), acc * 10 + DigitVal(Head(ds)))

parse_usize(s) ==
  IF s = << >> THEN ParseErr("cannot parse integer from empty string")
  ELSE IF Len(s) = 1 /\ s[1] \in {"+", "-"}
    THEN ParseErr("invalid digit found in string")
  ELSE parse_digits(IF s[1] = "+" THEN Tail(s) ELSE s, 0)

(***************************************************************************)
(* The KeyCode::Enter arm of handle_keypress while the prompt is active:   *)
(* the error reported with the state it leaves.                            *)
(***************************************************************************)
GotoOutcome(err, bs, jl, buf) ==
  [err |-> err, blocks |-> bs, jump_list |-> jl, goto_contents |-> buf]

\* faulty variant: the index is not compared with the list length
goto_confirm_unchecked(bs, jl, buf, len) ==
  LET parsed == parse_usize(buf) IN
  IF parsed.ok
    THEN LET previous == Top(bs).selected IN
         GotoOutcome(NoError,
                     SetTopSelected(bs, parsed.value),
                     IF previous # NoSel
                       THEN Append(jl, JumpGoto(previous))
                       ELSE jl,
                     << >>)
    ELSE GotoOutcome(parsed.err, bs, jl, buf)

goto_confirm(bs, jl, buf, len) ==
  LET parsed == parse_usize(buf) IN
  IF parsed.ok
    THEN IF parsed.value < len
           THEN LET previous == Top(bs).selected IN
                GotoOutcome(NoError,
                            SetTopSelected(bs, parsed.value),
                            IF previous # NoSel
                              THEN Append(jl, JumpGoto(previous))
                              ELSE jl,
                            << >>)
           ELSE GotoOutcome("index out of range", bs, jl, buf)
    ELSE GotoOutcome(parsed.err, bs, jl, buf)

(***************************************************************************)
(* ListState navigation and the clamp done when the List is rendered.      *)
(***************************************************************************)
select_first(sel) == 0
select_next(sel) == IF sel = NoSel THEN 0 ELSE saturating_add(sel)
select_previous(sel) == IF sel = NoSel THEN UsizeMax ELSE saturating_sub(sel)

\* faulty variant: rendering leaves an index past the end where it is
instructions_ui_no_clamp(sel, len) == IF len = 0 THEN NoSel ELSE sel

\* instructions_ui: render_stateful_widget of the List on the current
\* block's list_state, when the list has an area to render into
instructions_ui(sel, len) ==
  IF len = 0 THEN NoSel
  ELSE IF sel # NoSel /\ sel >= len THEN len - 1
  ELSE sel

\* inspector_ui indexes formatted_instructions[index] with the selection
inspector_ui_panics(sel, b) == sel # NoSel /\ sel >= Len(Code(b))

\* faulty variant: the error is left in place
cleared_error_kept(e) == e

\* handle_keypress starts with state.error = None
cleared_error(e) == NoError

(***************************************************************************)
(* Keys the model presses.                                                 *)
(***************************************************************************)
\* KeyCode::Char(c)
Chars == {"q", "g", " ", "k", "j", "[", "]", "3"}
\* the characters typed into the goto prompt: an index of the 4-instruction
\* block that is one past the end of the 3-instruction block, and a command
\* character
GotoChars == {"3", "q"}
\* the other key codes: three with an arm of their own, Tab with none
Specials == {"Backspace", "Enter", "Esc", "Up", "Down", "Tab"}

\* bookkeeping of the last two key presses (not program state): what the
\* current block looked like when a key press was handled
Pre(bs, jl, len) ==
  [depth |-> Len(bs), jlen |-> Len(jl), id |-> Top(bs).id,
   selected |-> Top(bs).selected, len |-> len]
NoPre == [depth |-> 0, jlen |-> 0, id |-> 0, selected |-> NoSel, len |-> 0]

\* hist1: the arm that handled the last key press and what the current
\* block looked like then (for the arms that read it), whether an error was
\* showing when a key without a command was pressed, whether the list
\* has been drawn since: "no", "skipped" (draws only that did not render
\* it) or "rendered", and the calls of data::get the arm made
NoHist1 == [op |-> "none", had_error |-> FALSE, shown |-> "no", pre |-> NoPre,
            calls |-> << >>]
\* hist2: the key press before the last one, kept when the last one is '['
\* and the one before was a go_forward or a goto confirm that succeeded
NoHist2 == [op |-> "none", pre |-> NoPre]

Remember(op, key, calls) ==
  /\ hist1' = [op |-> op,
               had_error |-> op = "unbound" /\ error # NoError,
               shown |-> "no",
               pre |-> IF op \in {"go_forward", "go_back", "goto_confirm",
                                  "move_up", "move_down"}
                         THEN Pre(blocks, jump_list, inst_list)
                         ELSE NoPre,
               calls |-> calls]
  /\ hist2' = IF op = "go_back" /\ hist1.op \in {"go_forward", "goto_confirm"}
                  /\ error = NoError
                THEN [op |-> hist1.op, pre |-> hist1.pre]
                ELSE NoHist2

\* marks follows jump_list: a push records the block it is made in (depth,
\* identifier and selection before the jump), a pop drops the record's mark
Mark(bs) == [depth |-> Len(bs), id |-> Top(bs).id, selected |-> Top(bs).selected]
Marked ==
  marks' = IF Len(jump_list') > Len(jump_list) THEN Append(marks, Mark(blocks))
           ELSE IF Len(jump_list') < Len(jump_list)
             THEN SubSeq(marks, 1, Len(jump_list'))
           ELSE marks

(***************************************************************************)
(* start: the state built before the loop.  enter_block(initial_block),    *)
(* then select_first on its list state.                                    *)
(***************************************************************************)
Init ==
  /\ \E b \in InitialIds :
       /\ blocks = SetTopSelected(enter_block(<< >>, BlockState(b)),
                                  select_first(NoSel))
       /\ inst_list = restore_block_state(<< BlockState(b) >>)
       /\ initial_block = [ok |-> TRUE, block |-> BlockState(b)]
  /\ stdio = FALSE
  /\ raw_mode = TRUE
  /\ alt_screen = TRUE
  /\ result = Untracked
  /\ returned = NoReturn
  /\ marks = << >>
  /\ jump_list = << >>
  /\ should_quit = FALSE
  /\ show_inspector = FALSE
  /\ goto = FALSE
  /\ goto_contents = << >>
  /\ error = NoError
  /\ pc = "draw"
  /\ hist1 = NoHist1
  /\ hist2 = NoHist2
  /\ view = NoView
  /\ text = NoText

(***************************************************************************)
(* terminal.draw(|frame| ui(frame, &mut state)), as far as State goes.     *)
(* "drawn": the closure ran and rendered the list (the flush after it may  *)
(* still fail); "resize_error": the draw failed before the closure ran;    *)
(* "no_list_area": the closure ran, the list had no area to render into.   *)
(* The io::Result is and-ed into start's `result`.                         *)
(***************************************************************************)
DrawOutcomes == {"drawn", "resize_error", "no_list_area"}

DrawError == "draw failed"
InputError == "input failed"

\* the io::Result a draw can end with
DrawResults(outcome) ==
  IF outcome = "resize_error" THEN {DrawError} ELSE {Ok, DrawError}

\* selections a draw that does not render the list may leave in place
WithinOverrun(sel, len) ==
  sel = NoSel \/ sel < len + MaxOverrun \/ sel > UsizeMax - MaxOverrun

Draw(outcome) ==
  /\ pc = "draw"
  /\ outcome # "drawn" => WithinOverrun(Top(blocks).selected, inst_list)
  /\ ~(outcome = "no_list_area" /\ show_inspector
         /\ inspector_ui_panics(Top(blocks).selected, Top(blocks).id))
  /\ blocks' = IF outcome = "drawn"
                 THEN SetTopSelected(blocks,
                        instructions_ui(Top(blocks).selected, inst_list))
                 ELSE blocks
  /\ pc' = "events"
  /\ hist1' = [hist1 EXCEPT !.shown =
                 IF outcome = "drawn" \/ hist1.shown = "rendered"
                   THEN "rendered" ELSE "skipped"]
  /\ \E io \in DrawResults(outcome) : result' = result_and(result, io)
  /\ UNCHANGED << inst_list, jump_list, should_quit, show_inspector, goto,
                  goto_contents, error, hist2, marks, compVars, stdio,
                  initial_block, raw_mode, alt_screen, returned >>

\* ui with the inspector open and no list area: inspector_ui indexes the
\* instructions with a selection the list never clamped, and panics
DrawPanic ==
  /\ pc = "draw"
  /\ show_inspector
  /\ inspector_ui_panics(Top(blocks).selected, Top(blocks).id)
  /\ pc' = "panic"
  /\ UNCHANGED << blocks, inst_list, jump_list, should_quit, show_inspector,
                  goto, goto_contents, error, hist1, hist2, marks, compVars,
                  sessVars >>

(***************************************************************************)
(* handle_events without a key press: the poll times out or fails, or the  *)
(* event is not a key event, or the key event is not a press.  State is    *)
(* not touched; the io::Result is and-ed into start's `result`.            *)
(***************************************************************************)
NoKeyPress ==
  /\ pc = "events"
  /\ pc' = "draw"
  /\ \E io \in {Ok, InputError} : result' = result_and(result, io)
  /\ UNCHANGED << blocks, inst_list, jump_list, should_quit, show_inspector,
                  goto, goto_contents, error, hist1, hist2, marks, compVars,
                  stdio, initial_block, raw_mode, alt_screen, returned >>

(***************************************************************************)
(* handle_events with a key press: handle_keypress, one action per arm of  *)
(* its match, in the order of the arms.  The loop then tests should_quit.  *)
(***************************************************************************)
KeyPress(op, key) ==
  /\ pc = "events"
  /\ Remember(op, key, << >>)
  /\ UNCHANGED << compVars, sessVars >>

\* while !state.should_quit, tested after handle_events returns
LoopTest == pc' = IF should_quit' THEN "done" ELSE "draw"

\* KeyCode::Char(c) if state.goto
GotoAppend(c) ==
  /\ goto
  /\ Len(goto_contents) < MaxBuf
  /\ KeyPress("goto_append", c)
  /\ error' = cleared_error(error)
  /\ goto_contents' = Append(goto_contents, c)
  /\ UNCHANGED << blocks, inst_list, jump_list, marks, should_quit, show_inspector,
                  goto >>
  /\ LoopTest

\* KeyCode::Backspace if state.goto
GotoBackspace ==
  /\ goto
  /\ KeyPress("goto_backspace", "Backspace")
  /\ error' = cleared_error(error)
  /\ goto_contents' = IF goto_contents = << >> THEN << >>
                      ELSE SubSeq(goto_contents, 1, Len(goto_contents) - 1)
  /\ UNCHANGED << blocks, inst_list, jump_list, marks, should_quit, show_inspector,
                  goto >>
  /\ LoopTest

\* KeyCode::Enter if state.goto
GotoConfirm ==
  /\ goto
  /\ LET out == goto_confirm(blocks, jump_list, goto_contents, inst_list) IN
       /\ Len(out.jump_list) <= MaxJumps
       /\ KeyPress("goto_confirm", "Enter")
       /\ goto' = FALSE
       /\ blocks' = out.blocks
       /\ jump_list' = out.jump_list
       /\ goto_contents' = out.goto_contents
       /\ error' = IF out.err # NoError THEN out.err ELSE cleared_error(error)
  /\ UNCHANGED << inst_list, should_quit, show_inspector >>
  /\ Marked
  /\ LoopTest

\* KeyCode::Char('q')
Quit ==
  /\ ~goto
  /\ KeyPress("quit", "q")
  /\ error' = cleared_error(error)
  /\ should_quit' = TRUE
  /\ UNCHANGED << blocks, inst_list, jump_list, marks, show_inspector, goto,
                  goto_contents >>
  /\ LoopTest

\* KeyCode::Char('g')
OpenGoto ==
  /\ ~goto
  /\ KeyPress("open_goto", "g")
  /\ error' = cleared_error(error)
  /\ goto' = TRUE
  /\ UNCHANGED << blocks, inst_list, jump_list, marks, should_quit, show_inspector,
                  goto_contents >>
  /\ LoopTest

\* KeyCode::Char(' ')
OpenInspector ==
  /\ ~goto
  /\ KeyPress("open_inspector", " ")
  /\ error' = cleared_error(error)
  /\ show_inspector' = TRUE
  /\ UNCHANGED << blocks, inst_list, jump_list, marks, should_quit, goto,
                  goto_contents >>
  /\ LoopTest

\* KeyCode::Esc
Escape ==
  /\ KeyPress("escape", "Esc")
  /\ error' = cleared_error(error)
  /\ show_inspector' = FALSE
  /\ goto' = FALSE
  /\ UNCHANGED << blocks, inst_list, jump_list, marks, should_quit, goto_contents >>
  /\ LoopTest

\* KeyCode::Up | KeyCode::Char('k')
MoveUp(key) ==
  /\ key \in {"Up", "k"}
  /\ key = "k" => ~goto
  /\ KeyPress("move_up", key)
  /\ error' = cleared_error(error)
  /\ blocks' = SetTopSelected(blocks, select_previous(Top(blocks).selected))
  /\ UNCHANGED << inst_list, jump_list, marks, should_quit, show_inspector, goto,
                  goto_contents >>
  /\ LoopTest

\* KeyCode::Down | KeyCode::Char('j')
MoveDown(key) ==
  /\ key \in {"Down", "j"}
  /\ key = "j" => ~goto
  /\ KeyPress("move_down", key)
  /\ error' = cleared_error(error)
  /\ blocks' = SetTopSelected(blocks, select_next(Top(blocks).selected))
  /\ UNCHANGED << inst_list, jump_list, marks, should_quit, show_inspector, goto,
                  goto_contents >>
  /\ LoopTest

\* KeyCode::Char('[')
GoBack ==
  /\ ~goto
  /\ KeyPress("go_back", "[")
  /\ LET out == go_back(blocks, jump_list) IN
       /\ blocks' = out.blocks
       /\ jump_list' = out.jump_list
       /\ inst_list' = restore_block_state(out.blocks)
       /\ error' = IF out.err # NoError THEN out.err ELSE cleared_error(error)
  /\ UNCHANGED << should_quit, show_inspector, goto, goto_contents >>
  /\ Marked
  /\ LoopTest

\* KeyCode::Char(']')
GoForward ==
  /\ ~goto
  /\ pc = "events"
  /\ \E out \in go_forward(blocks, jump_list) :
       /\ Remember("go_forward", "]", out.calls)
       /\ blocks' = out.blocks
       /\ jump_list' = out.jump_list
       /\ inst_list' = restore_block_state(out.blocks)
       /\ error' = IF out.err # NoError THEN out.err ELSE cleared_error(error)
  /\ UNCHANGED << should_quit, show_inspector, goto, goto_contents, compVars,
                  sessVars >>
  /\ Marked
  /\ LoopTest

\* any other key: the `_ => ()` arm
Unbound(key) ==
  /\ \/ key = "3" /\ ~goto
     \/ key \in {"Backspace", "Enter"} /\ ~goto
     \/ key = "Tab"
  /\ KeyPress("unbound", key)
  /\ error' = cleared_error(error)
  /\ UNCHANGED << blocks, inst_list, jump_list, marks, should_quit, show_inspector,
                  goto, goto_contents >>
  /\ LoopTest

Next ==
  \/ \E outcome \in DrawOutcomes : Draw(outcome)
  \/ DrawPanic
  \/ NoKeyPress
  \/ \E c \in GotoChars : GotoAppend(c)
  \/ GotoBackspace
  \/ GotoConfirm
  \/ Quit
  \/ OpenGoto
  \/ OpenInspector
  \/ Escape
  \/ \E key \in {"Up", "k"} : MoveUp(key)
  \/ \E key \in {"Down", "j"} : MoveDown(key)
  \/ GoBack
  \/ GoForward
  \/ \E key \in Chars \cup Specials : Unbound(key)

Spec == Init /\ [][Next]_vars

(***************************************************************************)
(* The whole command: ExploreIr::run (main.rs) up to ui::start, start's    *)
(* set-up of the terminal, the loop above, and start's release of the      *)
(* terminal.  pc names the call about to be made.  A call that can fail    *)
(* takes its io outcome from {Ok, error}; a failed call leaves the         *)
(* terminal as it was.                                                     *)
(***************************************************************************)
\* the targets of the runs followed from the start of the command: the
\* identifier of the empty block, and one that names no block
RunTargets == {2, 3}

StdioError == "Plugin can't run under stdio mode"
ResolveError == "view ir failed"

\* where run goes next, and what it returns if it returns
Goes(to) == [pc |-> to, returned |-> NoReturn]
Returns(value) == [pc |-> "returned", returned |-> value]

\* faulty variant: the Err of data::get is not returned
run_get_ignores_error(r) == Goes("is_using_stdio")

\* let initial_block = data::get(...)?;
run_get(r) == IF r.ok THEN Goes("is_using_stdio") ELSE Returns(ResolveError)

\* if engine.is_using_stdio() { return Err(...) }
run_is_using_stdio(using_stdio) ==
  IF using_stdio THEN Returns(StdioError) ELSE Goes("enter_foreground")

\* `?` after a call of io::Result: go on, or return the error
try(io, to) == IF io = Ok THEN Goes(to) ELSE Returns(io)

SessInit ==
  /\ pc = "get"
  /\ stdio \in BOOLEAN
  /\ initial_block = NoBlock
  /\ raw_mode = FALSE
  /\ alt_screen = FALSE
  /\ result = Ok
  /\ returned = NoReturn
  /\ blocks = << >>
  /\ inst_list = 0
  /\ jump_list = << >>
  /\ should_quit = FALSE
  /\ show_inspector = FALSE
  /\ goto = FALSE
  /\ goto_contents = << >>
  /\ error = NoError
  /\ hist1 = NoHist1
  /\ hist2 = NoHist2
  /\ marks = << >>
  /\ view = NoView
  /\ text = NoText

\* run: data::get(engine, target, is_decl_id, call.head)?
RunGet(target) ==
  /\ pc = "get"
  /\ \E r \in data_get(target, FALSE) :
       /\ initial_block' = r
       /\ pc' = run_get(r).pc
       /\ returned' = run_get(r).returned
  /\ UNCHANGED << blocks, inst_list, jump_list, should_quit, show_inspector,
                  goto, goto_contents, error, hist1, hist2, marks, compVars,
                  stdio, raw_mode, alt_screen, result >>

\* run: the host-transport check
RunIsUsingStdio ==
  /\ pc = "is_using_stdio"
  /\ pc' = run_is_using_stdio(stdio).pc
  /\ returned' = run_is_using_stdio(stdio).returned
  /\ UNCHANGED << blocks, inst_list, jump_list, should_quit, show_inspector,
                  goto, goto_contents, error, hist1, hist2, marks, compVars,
                  stdio, initial_block, raw_mode, alt_screen, result >>

\* run: engine.enter_foreground()?
RunEnterForeground(io) ==
  /\ pc = "enter_foreground"
  /\ pc' = try(io, "enable_raw_mode").pc
  /\ returned' = try(io, "enable_raw_mode").returned
  /\ UNCHANGED << blocks, inst_list, jump_list, should_quit, show_inspector,
                  goto, goto_contents, error, hist1, hist2, marks, compVars,
                  stdio, initial_block, raw_mode, alt_screen, result >>

\* start: enable_raw_mode()?
StartEnableRawMode(io) ==
  /\ pc = "enable_raw_mode"
  /\ raw_mode' = IF io = Ok THEN TRUE ELSE raw_mode
  /\ pc' = try(io, "enter_alternate_screen").pc
  /\ returned' = try(io, "enter_alternate_screen").returned
  /\ UNCHANGED << blocks, inst_list, jump_list, should_quit, show_inspector,
                  goto, goto_contents, error, hist1, hist2, marks, compVars,
                  stdio, initial_block, alt_screen, result >>

\* start: stdout().execute(EnterAlternateScreen)?
StartEnterAlternateScreen(io) ==
  /\ pc = "enter_alternate_screen"
  /\ alt_screen' = IF io = Ok THEN TRUE ELSE alt_screen
  /\ pc' = try(io, "terminal_new").pc
  /\ returned' = try(io, "terminal_new").returned
  /\ UNCHANGED << blocks, inst_list, jump_list, should_quit, show_inspector,
                  goto, goto_contents, error, hist1, hist2, marks, compVars,
                  stdio, initial_block, raw_mode, result >>

\* start: Terminal::new(...)?, then the State is built, the initial block
\* entered and its first instruction selected
StartTerminalNew(io) ==
  /\ pc = "terminal_new"
  /\ pc' = try(io, "draw").pc
  /\ returned' = try(io, "draw").returned
  /\ IF io = Ok
       THEN /\ blocks' = SetTopSelected(enter_block(<< >>, initial_block.block),
                                        select_first(NoSel))
            /\ inst_list' = restore_block_state(<< initial_block.block >>)
       ELSE UNCHANGED << blocks, inst_list >>
  /\ UNCHANGED << jump_list, should_quit, show_inspector, goto, goto_contents,
                  error, hist1, hist2, marks, compVars, stdio, initial_block,
                  raw_mode, alt_screen, result >>

\* start: disable_raw_mode().and(stdout().execute(LeaveAlternateScreen))
\*          .and(result)
\* Both calls are made, whatever the first one returns.
StartRelease(disabled, left) ==
  /\ pc = "done"
  /\ raw_mode' = IF disabled = Ok THEN FALSE ELSE raw_mode
  /\ alt_screen' = IF left = Ok THEN FALSE ELSE alt_screen
  /\ returned' = result_and(result_and(disabled, left), result)
  /\ pc' = "returned"
  /\ UNCHANGED << blocks, inst_list, jump_list, should_quit, show_inspector,
                  goto, goto_contents, error, hist1, hist2, marks, compVars,
                  stdio, initial_block, result >>

SessNext ==
  \/ \E target \in RunTargets : RunGet(target)
  \/ RunIsUsingStdio
  \/ \E io \in {Ok, "enter_foreground failed"} : RunEnterForeground(io)
  \/ \E io \in {Ok, "enable_raw_mode failed"} : StartEnableRawMode(io)
  \/ \E io \in {Ok, "EnterAlternateScreen failed"} :
       StartEnterAlternateScreen(io)
  \/ \E io \in {Ok, "Terminal::new failed"} : StartTerminalNew(io)
  \/ Next
  \/ \E disabled \in {Ok, "disable_raw_mode failed"},
        left \in {Ok, "LeaveAlternateScreen failed"} :
       StartRelease(disabled, left)

SpecSession == SessInit /\ [][SessNext]_vars

(***************************************************************************)
(* The compositor on its own: source_code_ui applied to every block of a   *)
(* bounded set.  A block has its source text, the span of the block (as    *)
(* long as the text), the selection, and the span of its one instruction.  *)
(***************************************************************************)
Alphabet == {"a", LF, CR}
\* the example of the specification: "abc\ndef\nghi"
ExampleSource == << "a", "b", "c", LF, "d", "e", "f", LF, "g", "h", "i" >>
Sources ==
  UNION {[1 .. n -> Alphabet] : n \in 0 .. MaxSrcLen} \cup {ExampleSource}
\* where a block's span starts in the file
BlockStarts == {0, 2}

Views ==
  { [source |-> src, span |-> SrcSpan(b, b + Len(src)), selected |-> sel,
     spans |-> << SrcSpan(x, y) >>] :
      src \in Sources, b \in BlockStarts, sel \in {NoSel, 0, 1},
      x \in 0 .. 2 + MaxSrcLen + 1, y \in 0 .. 2 + MaxSrcLen + 1 }

CompInit ==
  /\ view \in {v \in Views :
                 /\ v.spans[1].start <= v.spans[1].end
                 /\ v.spans[1].end <= v.span.end + 1}
  /\ text = NoText
  /\ pc = "compose"
  /\ blocks = << >>
  /\ inst_list = 0
  /\ jump_list = << >>
  /\ should_quit = FALSE
  /\ show_inspector = FALSE
  /\ goto = FALSE
  /\ goto_contents = << >>
  /\ error = NoError
  /\ hist1 = NoHist1
  /\ hist2 = NoHist2
  /\ marks = << >>
  /\ stdio = FALSE
  /\ initial_block = NoBlock
  /\ raw_mode = TRUE
  /\ alt_screen = TRUE
  /\ result = Untracked
  /\ returned = NoReturn

\* ui -> source_code_ui
Compose ==
  /\ pc = "compose"
  /\ text' = source_code_ui(view)
  /\ pc' = "composed"
  /\ UNCHANGED << view, blocks, inst_list, jump_list, should_quit,
                  show_inspector, goto, goto_contents, error, hist1, hist2,
                  marks, sessVars >>

\* the next draw with the same block and selection: source_code_ui again
Recompose ==
  /\ pc = "composed"
  /\ text' = source_code_ui(view)
  /\ pc' = "recomposed"
  /\ UNCHANGED << view, blocks, inst_list, jump_list, should_quit,
                  show_inspector, goto, goto_contents, error, hist1, hist2,
                  marks, sessVars >>

CompNext == Compose \/ Recompose

SpecComp == CompInit /\ [][CompNext]_vars

(***************************************************************************)
(* Properties of the navigation state machine.                             *)
(***************************************************************************)
MoveOps == {"move_up", "move_down"}

\* a step of the loop that handles a key press
KeyPressStep == pc = "events" /\ hist1'.shown = "no"

\* C1: after a successful jump_forward (']') immediately followed by
\* jump_backward ('['), the block stack depth and the jump history length
\* are what they were before the jump_forward, the block that was on top
\* is on top again and its selected index is what it was.
RoundTripForwardBackward ==
  (hist1.op = "go_back" /\ hist2.op = "go_forward") =>
    /\ Len(blocks) = hist2.pre.depth
    /\ Len(jump_list) = hist2.pre.jlen
    /\ Top(blocks).id = hist2.pre.id
    /\ Top(blocks).selected = hist2.pre.selected

\* the call at index 1 of the 3-instruction entry block was entered and left
\* again: depth 1 -> 2 -> 1, history 0 -> 1 -> 0, selection 1
RoundTripWitness ==
  /\ hist1.op = "go_back" /\ hist1.pre.depth = 2 /\ hist1.pre.jlen = 1
  /\ hist2.op = "go_forward"
  /\ hist2.pre = [depth |-> 1, jlen |-> 0, id |-> 0, selected |-> 1, len |-> 3]
  /\ Len(blocks) = 1 /\ jump_list = << >> /\ Top(blocks).selected = 1

\* C2: after a goto that succeeded in a non-empty block, immediately
\* followed by jump_backward, the same block is on top and its selection is
\* the one held before the goto.
GotoThenBackRestores ==
  (hist1.op = "go_back" /\ hist1.shown = "no" /\ hist2.op = "goto_confirm"
     /\ hist2.pre.len > 0) =>
    /\ Len(blocks) = hist2.pre.depth
    /\ Top(blocks).id = hist2.pre.id
    /\ Top(blocks).selected = hist2.pre.selected

\* C3 as stated: once a move_selection key has been handled in a non-empty
\* block, history and stack are as before and the selection is in
\* [0, len-1].
MoveSelectionStaysInRange ==
  (hist1.op \in MoveOps /\ hist1.pre.len > 0) =>
    /\ Len(jump_list) = hist1.pre.jlen
    /\ Len(blocks) = hist1.pre.depth
    /\ Top(blocks).selected \in 0 .. hist1.pre.len - 1

MoveStep ==
  \/ \E key \in {"Up", "k"} : MoveUp(key)
  \/ \E key \in {"Down", "j"} : MoveDown(key)

\* what a move from a selection s of [0, len-1], or from no selection,
\* shows once the list has been rendered
MoveShown(op, s, len) ==
  IF s = NoSel THEN (IF op = "move_down" THEN 0 ELSE len - 1)
  ELSE IF op = "move_down" THEN (IF s = len - 1 THEN len - 1 ELSE s + 1)
  ELSE IF s = 0 THEN 0 ELSE s - 1

\* C3 amended: a move_selection key press changes neither the jump history
\* nor the block stack (only the current block's selection), and once the
\* instruction list has been rendered after it the selection is in
\* [0, len-1]: one position up or down, staying at 0 and at len-1.
MoveSelectionClampedByRender ==
  /\ [][MoveStep =>
          /\ jump_list' = jump_list
          /\ inst_list' = inst_list
          /\ Len(blocks') = Len(blocks)
          /\ \A i \in 1 .. Len(blocks) :
               /\ blocks'[i].id = blocks[i].id
               /\ i < Len(blocks) => blocks'[i] = blocks[i]]_vars
  /\ []((hist1.op \in MoveOps /\ hist1.shown = "rendered"
           /\ hist1.pre.len > 0) =>
          /\ Top(blocks).selected \in 0 .. hist1.pre.len - 1
          /\ hist1.pre.selected < hist1.pre.len =>
               Top(blocks).selected =
                 MoveShown(hist1.op, hist1.pre.selected, hist1.pre.len))

\* Down pressed on the last instruction of the entry block, then rendered
MoveSelectionWitness ==
  /\ hist1.op = "move_down" /\ hist1.shown = "rendered"
  /\ hist1.pre.len = 3 /\ hist1.pre.selected = 2
  /\ Top(blocks).selected = 2

\* C4: a jump_forward that fails sets the error and leaves the block stack
\* (every block's selection included) and the jump history as they were.
FailedForwardChangesNothing ==
  [][(GoForward /\ error' # NoError) =>
       /\ blocks' = blocks
       /\ jump_list' = jump_list
       /\ inst_list' = inst_list]_vars

\* the resolver failed on a jump out of a nested block
FailedForwardWitness ==
  /\ hist1.op = "go_forward" /\ hist1.shown = "no"
  /\ error = "view ir failed"
  /\ Len(blocks) = 2 /\ Len(jump_list) = 1

\* C5: confirming the goto prompt with text that is not a non-negative
\* integer, or with an index >= the instruction count, sets the error and
\* leaves block stack, jump history and selection as they were.
BadGotoText(buf, len) ==
  \/ buf = << >>
  \/ \E i \in 1 .. Len(buf) : buf[i] \notin Digits
  \/ parse_usize(buf).value >= len

FailedGotoChangesNothing ==
  [][(GotoConfirm /\ BadGotoText(goto_contents, inst_list)) =>
       /\ error' # NoError
       /\ blocks' = blocks
       /\ jump_list' = jump_list
       /\ inst_list' = inst_list]_vars

\* goto 3 on the 3-instruction entry block
FailedGotoWitness ==
  /\ hist1.op = "goto_confirm" /\ hist1.shown = "no"
  /\ hist1.pre.len = 3 /\ goto_contents = << "3" >>
  /\ error = "index out of range"

\* C6: jump_backward with an empty jump history sets the error and leaves
\* the block stack, the history, every selection and the modal flags as
\* they were.
BackOnEmptyHistoryChangesNothing ==
  [][(GoBack /\ jump_list = << >>) =>
       /\ error' = "can't go back any further"
       /\ UNCHANGED << blocks, jump_list, inst_list, goto, goto_contents,
                       show_inspector, should_quit >>]_vars

BackOnEmptyHistoryWitness ==
  /\ hist1.op = "go_back" /\ hist1.shown = "no" /\ hist1.pre.jlen = 0
  /\ hist1.pre.selected = 2
  /\ error = "can't go back any further"

\* C7: the block stack is never empty and its bottom block is the initial
\* block for the whole session.
BlockStackNeverEmpty ==
  /\ [](Len(blocks) >= 1)
  /\ [][Len(blocks') >= 1 /\ blocks'[1].id = blocks[1].id]_vars

\* jump_backward has just popped back to the initial block
BlockStackWitness ==
  /\ hist1.op = "go_back" /\ hist1.pre.depth = 2
  /\ Len(blocks) = 1 /\ Top(blocks).id = 0

\* C10: a key press leaves no earlier error behind: after it the error is
\* absent unless the arm that handled the key reported one; steps that
\* handle no key press (time-out, other events, draws) keep the error.
OwnErrors(op) ==
  CASE op = "go_forward" ->
         {"nothing is selected", "can't find selected instruction",
          "nothing to jump to", "view ir failed",
          "out of range integral type conversion attempted"}
    [] op = "go_back" ->
         {"can't go back any further", "unable to jump to the previous block"}
    [] op = "goto_confirm" ->
         {"index out of range", "cannot parse integer from empty string",
          "invalid digit found in string",
          "number too large to fit in target type"}
    [] OTHER -> {}

KeyPressClearsError ==
  [][IF KeyPressStep
       THEN error' = NoError \/ error' \in OwnErrors(hist1'.op)
       ELSE error' = error]_vars

\* an error was showing, a key without a command was pressed, it is gone
KeyPressClearsErrorWitness ==
  hist1.op = "unbound" /\ hist1.had_error /\ error = NoError

\* C11: confirming the goto prompt (Enter while it is active) closes the
\* prompt and empties the pending text whatever the outcome, so that the
\* prompt is empty when it is opened the next time.
GotoConfirmClearsBuffer ==
  /\ hist1.op = "goto_confirm" => ~goto /\ goto_contents = << >>
  /\ hist1.op = "open_goto" => goto_contents = << >>

\* C14: a block that has just been entered, the initial block or one
\* entered by a successful jump_forward, has its first instruction selected
\* when it has instructions.
EnterSelectsFirst ==
  /\ (hist1.op = "none" /\ hist1.shown = "no" /\ inst_list > 0) =>
       Top(blocks).selected = 0
  /\ (hist1.op = "go_forward" /\ hist1.shown = "no" /\ error = NoError
        /\ Len(blocks) = hist1.pre.depth + 1 /\ inst_list > 0) =>
       Top(blocks).selected = 0

\* what a jump_forward on instruction `index` of the current block must do
ResolvesAs(instruction, is_decl_id, entered) ==
  /\ hist1'.calls = IF instruction.arg > I64Max
                      THEN << >>
                      ELSE << GetCall(instruction.arg, is_decl_id) >>
  /\ error' = NoError =>
       /\ hist1'.calls # << >>
       /\ jump_list' = Append(jump_list, JumpIntoBlock)
       /\ blocks' = Append(blocks, BlockState(entered))

\* C15: jump_forward on the selected instruction: a call asks data::get
\* for its decl_id as a declaration; a literal block, closure or row
\* condition asks for its block_id as a block; each call of data::get that
\* succeeds is followed by exactly one IntoBlock record and one block pushed
\* (the block resolved).  Any other instruction with a branch target pushes
\* exactly one Goto { previous: index } and selects the target, without a
\* call of data::get.  data::get is called at most once per jump_forward
\* and never by jump_backward, goto or move_selection.
ResolutionRules ==
  /\ [](Len(hist1.calls) <= 1 /\ (hist1.op # "go_forward" => hist1.calls = << >>))
  /\ [][GoForward =>
          LET index == Top(blocks).selected
              instructions == Code(Top(blocks).id)
          IN IF index = NoSel \/ index >= Len(instructions)
               THEN hist1'.calls = << >> /\ error' # NoError
               ELSE
                 LET instruction == instructions[index + 1] IN
                 CASE instruction.kind = "call" ->
                        ResolvesAs(instruction, TRUE, DeclBlock(instruction.arg))
                   [] instruction.kind \in {"block", "closure", "rowcond"} ->
                        ResolvesAs(instruction, FALSE, instruction.arg)
                   [] instruction.kind = "branch" ->
                        /\ hist1'.calls = << >>
                        /\ error' = NoError
                        /\ jump_list' = Append(jump_list, JumpGoto(index))
                        /\ blocks' = SetTopSelected(blocks, instruction.arg)
                   [] OTHER ->
                        /\ hist1'.calls = << >>
                        /\ error' # NoError]_vars

\* a literal block of the nested definition has been entered: one call of
\* data::get for block 2 as a block, two IntoBlock records, three blocks
ResolutionRulesWitness ==
  /\ hist1.op = "go_forward" /\ hist1.shown = "no" /\ error = NoError
  /\ hist1.calls = << GetCall(2, FALSE) >>
  /\ jump_list = << JumpIntoBlock, JumpIntoBlock >>
  /\ Len(blocks) = 3 /\ Top(blocks).id = 2

\* C16: the cursor of a block is kept while blocks entered from it are on
\* top: as long as the IntoBlock record of a jump_forward made in block P
\* with selection s is in the history, P is in the stack where it was,
\* below the top, with selection s, whatever is done in the blocks above;
\* and the jump_backward that pops the record leaves P on top with
\* selection s.
CursorPersistsAcrossNesting ==
  /\ [](/\ Len(marks) = Len(jump_list)
        /\ \A i \in 1 .. Len(jump_list) :
             jump_list[i].tag = "IntoBlock" =>
               /\ marks[i].depth < Len(blocks)
               /\ blocks[marks[i].depth].id = marks[i].id
               /\ blocks[marks[i].depth].selected = marks[i].selected)
  /\ [][(GoBack /\ jump_list # << >> /\ Top(jump_list).tag = "IntoBlock") =>
          /\ error' = NoError
          /\ Len(blocks') = Top(marks).depth
          /\ Top(blocks').id = Top(marks).id
          /\ Top(blocks').selected = Top(marks).selected]_vars

\* the entry block is on top again with selection 1, after the selection
\* of the 4-instruction block entered from it had been moved to its end
CursorPersistsWitness ==
  /\ hist1.op = "go_back" /\ hist1.shown = "no"
  /\ hist1.pre = [depth |-> 2, jlen |-> 1, id |-> 1, selected |-> 3, len |-> 4]
  /\ blocks = << [id |-> 0, selected |-> 1] >>
  /\ jump_list = << >>

\* C17: while the goto prompt is active, a key press other than Enter only
\* edits the pending text or closes the prompt: it leaves the termination
\* flag, the block stack (every selection included) and the jump history
\* as they were and does not open the inspector.
GotoPromptIsModal ==
  [][(goto /\ KeyPressStep /\ ~GotoConfirm) =>
       /\ should_quit' = should_quit
       /\ blocks' = blocks
       /\ jump_list' = jump_list
       /\ show_inspector' => show_inspector]_vars

\* the IntoBlock records of a jump list
IntoBlockRecords(jl) == {i \in 1 .. Len(jl) : jl[i].tag = "IntoBlock"}

\* C19: the jump list holds one IntoBlock record for every block above the
\* first one, so go_back never pops an IntoBlock record with a single block
\* on the stack and "unable to jump to the previous block" is never
\* reported.
NestingMatchesHistory ==
  /\ Cardinality(IntoBlockRecords(jump_list)) = Len(blocks) - 1
  /\ error # "unable to jump to the previous block"
  /\ hist1.op = "go_back" /\ hist1.pre.jlen > Len(jump_list) =>
       \/ hist1.pre.depth = Len(blocks)
       \/ hist1.pre.depth = Len(blocks) + 1 /\ Len(blocks) >= 1

\* '[' has popped the IntoBlock record that lay over a Goto record: one
\* block and the Goto record are left
NestingMatchesHistoryWitness ==
  /\ hist1.op = "go_back"
  /\ hist1.pre.depth = 2 /\ hist1.pre.jlen = 2
  /\ Len(blocks) = 1
  /\ Len(jump_list) = 1 /\ jump_list[1].tag = "Goto"
  /\ error = NoError

\* C20: every Goto record of the jump list holds a valid index of the block
\* it was recorded in (previous < instruction count), and while it is the
\* last record that block is the one on top, at the depth of the push, so
\* go_back restores the index in the same block.
GotoRecordsValid ==
  \A i \in 1 .. Len(jump_list) :
    jump_list[i].tag = "Goto" =>
      /\ jump_list[i].previous = marks[i].selected
      /\ jump_list[i].previous < make_instruction_list(marks[i].id)
      /\ i = Len(jump_list) =>
           /\ Len(blocks) = marks[i].depth
           /\ Top(blocks).id = marks[i].id

(***************************************************************************)
(* Properties of the whole command (SpecSession).                          *)
(***************************************************************************)
\* C12: on every exit path, once the command has returned the terminal is
\* neither in raw mode nor on the alternate screen.
TerminalReleasedOnExit == pc = "returned" => ~raw_mode /\ ~alt_screen

\* the positions of ui::start, from its first call to the end of the loop
StartPcs == {"enable_raw_mode", "enter_alternate_screen", "terminal_new",
             "draw", "events", "done", "panic"}

\* C13: the initial block is resolved and the host transport is checked
\* before the terminal is touched: raw mode, the alternate screen and the
\* loop are only reached with the block resolved and a transport other than
\* stdio; when the resolution fails the command returns the resolver's
\* error, when the transport is stdio it returns the stdio error, and in
\* both cases the terminal was never entered and no State was built.
SetupBeforeTerminal ==
  /\ (raw_mode \/ alt_screen \/ pc \in StartPcs \/ blocks # << >>) =>
       initial_block.ok /\ ~stdio
  /\ (pc = "returned" /\ ~initial_block.ok) => returned = ResolveError
  /\ (pc = "returned" /\ initial_block.ok /\ stdio) => returned = StdioError
  /\ (pc = "is_using_stdio" \/ pc = "enter_foreground") => initial_block.ok

\* the block was resolved, the host uses stdio, the command has returned
\* the stdio error with the terminal untouched
SetupBeforeTerminalWitness ==
  /\ pc = "returned" /\ stdio /\ initial_block.ok
  /\ returned = StdioError
  /\ ~raw_mode /\ ~alt_screen /\ blocks = << >>

\* the positions of the loop of start
LoopPcs == {"draw", "events"}

\* the loop is left only by its test finding should_quit true, and is not
\* running any more once should_quit is true
LoopEndsOnFlagOnly ==
  /\ [](should_quit => pc \notin LoopPcs)
  /\ [][(pc \in LoopPcs /\ pc' \notin LoopPcs) =>
         (pc' = "done" /\ should_quit')]_vars

\* should_quit is set by 'q' outside the goto prompt only, and never cleared
FlagSetByQuitOnly ==
  [][should_quit' # should_quit => (should_quit' /\ ~goto /\ Quit)]_vars

\* an Err of draw or of handle_events leaves the loop running
ErrorsKeepLoopRunning ==
  [][(pc \in LoopPcs /\ result' # result) => pc' \in LoopPcs]_vars

\* start returns the first Err of the loop if there was one, whatever the
\* release of the terminal returned afterwards
FirstErrorReturned ==
  [](pc = "returned" /\ blocks # << >> /\ result # Ok => returned = result)

\* C21: the loop of start ends exactly when should_quit is found true;
\* should_quit is set only by 'q' pressed outside the goto prompt and is
\* never cleared, and no event is handled once it is set.  An Err of a draw
\* or of handle_events does not end the loop, and start returns the first
\* Err that occurred, after releasing the terminal.
LoopExitRule ==
  /\ LoopEndsOnFlagOnly
  /\ FlagSetByQuitOnly
  /\ ErrorsKeepLoopRunning
  /\ FirstErrorReturned

(***************************************************************************)
(* Properties of the compositor.                                           *)
(***************************************************************************)
\* the characters of a display line, each with its style
RECURSIVE LineChars(_)
LineChars(line) ==
  IF line = << >> THEN << >>
  ELSE [i \in 1 .. Len(line[1].content) |->
          [ch |-> line[1].content[i], highlighted |-> line[1].highlighted]]
       \o LineChars(Tail(line))

\* position in str of the first character of its i-th line
RECURSIVE LineStart(_, _)
LineStart(str, i) ==
  IF i = 1 THEN 1
  ELSE LET prev == LineStart(str, i - 1)
       IN prev + find_lf(SubSeq(str, prev, Len(str)), 1)

\* the selected instruction has a span and it lies in the block's span
HighlightCase ==
  /\ pc = "composed"
  /\ view.selected # NoSel /\ view.selected < Len(view.spans)
  /\ highlighted_span_of(view).start >= view.span.start
  /\ highlighted_span_of(view).end <= view.span.end

\* C8: with the instruction span inside the block span, the display lines
\* are the lines of the source text, one for one and in order, and a
\* character is highlighted exactly when its byte lies in the span.
CompositorLineStructure ==
  HighlightCase =>
    LET src == lines(view.source)
        start == highlighted_span_of(view).start - view.span.start
        end == highlighted_span_of(view).end - view.span.start
    IN /\ Len(text) = Len(src)
       /\ \A i \in 1 .. Len(src) :
            LET shown == LineChars(text[i])
                first == LineStart(view.source, i)
            IN /\ Len(shown) = Len(src[i])
               /\ \A j \in 1 .. Len(src[i]) :
                    /\ shown[j].ch = src[i][j]
                    /\ shown[j].highlighted <=>
                         (start <= first + j - 2 /\ first + j - 2 < end)

\* the example of the specification is composed as the specification says
CompositorExample ==
  (/\ pc = "composed"
   /\ view.source = ExampleSource /\ view.selected = 0
   /\ view.spans[1].start - view.span.start = 2
   /\ view.spans[1].end - view.span.start = 5) =>
    text = << << span_raw(<< "a", "b" >>), span_styled(<< "c" >>) >>,
              << span_styled(<< "d" >>), span_raw(<< "e", "f" >>) >>,
              << span_raw(<< "g", "h", "i" >>) >> >>

\* the cases in which nothing is to be highlighted
FallbackCase ==
  /\ pc = "composed"
  /\ \/ view.selected = NoSel
     \/ view.selected >= Len(view.spans)
     \/ view.spans[view.selected + 1].start < view.span.start
     \/ view.spans[view.selected + 1].end > view.span.end

NoHighlight(t) ==
  \A i \in 1 .. Len(t) : \A k \in 1 .. Len(t[i]) : ~t[i][k].highlighted

\* the display lines joined by line feeds
RECURSIVE JoinLines(_)
JoinLines(t) ==
  IF t = << >> THEN << >>
  ELSE IF Len(t) = 1 THEN [j \in 1 .. Len(LineChars(t[1])) |-> LineChars(t[1])[j].ch]
  ELSE [j \in 1 .. Len(LineChars(t[1])) |-> LineChars(t[1])[j].ch]
       \o << LF >> \o JoinLines(Tail(t))

\* str with each CR LF pair replaced by LF
RECURSIVE CrLfAsLf(_)
CrLfAsLf(str) ==
  IF str = << >> THEN << >>
  ELSE IF Len(str) >= 2 /\ str[1] = CR /\ str[2] = LF
    THEN << LF >> \o CrLfAsLf(SubSeq(str, 3, Len(str)))
  ELSE << str[1] >> \o CrLfAsLf(Tail(str))

WithoutFinalLf(str) ==
  IF str # << >> /\ str[Len(str)] = LF
    THEN SubSeq(str, 1, Len(str) - 1) ELSE str

\* C9 as stated: in the fallback cases nothing is highlighted and the
\* lines, joined by line breaks, are the source text.
FallbackShowsSourceExactly ==
  FallbackCase => NoHighlight(text) /\ JoinLines(text) = view.source

\* C9 amended: in the fallback cases nothing is highlighted and the lines,
\* joined by line breaks, are the source text with each CR LF read as one
\* line break and without a final line break; they are the source text
\* itself when it has no CR LF and does not end with a line break.
FallbackShowsSourceLines ==
  FallbackCase =>
    /\ NoHighlight(text)
    /\ JoinLines(text) = WithoutFinalLf(CrLfAsLf(view.source))
    /\ (view.source = WithoutFinalLf(CrLfAsLf(view.source)))
         => JoinLines(text) = view.source

\* an instruction span that starts before the block and ends inside it,
\* on a two-line source
FallbackWitness ==
  /\ pc = "composed"
  /\ view.source = << "a", LF, "a" >>
  /\ view.selected = 0
  /\ view.span.start = 2
  /\ view.spans[1].start = 1 /\ view.spans[1].end = 3
  /\ JoinLines(text) = view.source

\* every character of the display lines, in order, with its style
RECURSIVE TextChars(_)
TextChars(t) ==
  IF t = << >> THEN << >> ELSE LineChars(t[1]) \o TextChars(Tail(t))

\* the characters of the segments of one style, concatenated in order
Styled(t, highlighted) ==
  LET cs == SelectSeq(TextChars(t), LAMBDA c : c.highlighted = highlighted)
  IN [i \in 1 .. Len(cs) |-> cs[i].ch]

\* str without its line breaks: each LF, and the CR right before an LF
WithoutBreaks(str) == SelectSeq(CrLfAsLf(str), LAMBDA c : c # LF)

\* C18: with the instruction span inside the block span, start and end
\* being its offsets in the source text, the highlighted segments
\* concatenated are the bytes [start, end) without their line breaks and
\* the plain segments concatenated are the bytes [0, start) followed by
\* [end, len) without their line breaks (a line break being LF, or CR LF
\* within one range); composing again from the same block gives the same
\* text.
HighlightExact ==
  /\ []((/\ pc \in {"composed", "recomposed"}
          /\ view.selected # NoSel /\ view.selected < Len(view.spans)
          /\ span_contained(highlighted_span_of(view), view.span)) =>
          LET start == highlighted_span_of(view).start - view.span.start
              end == highlighted_span_of(view).end - view.span.start
              source == view.source
          IN /\ Styled(text, TRUE) =
                  WithoutBreaks(SubSeq(source, start + 1, end))
             /\ Styled(text, FALSE) =
                  WithoutBreaks(SubSeq(source, 1, start))
                    \o WithoutBreaks(SubSeq(source, end + 1, Len(source))))
  /\ [][Recompose => text' = text]_vars

\* the example of the specification, composed twice: "c" and "d"
\* highlighted, the rest plain
HighlightExactWitness ==
  /\ pc = "recomposed"
  /\ view.source = ExampleSource /\ view.selected = 0
  /\ view.spans[1].start - view.span.start = 2
  /\ view.spans[1].end - view.span.start = 5
  /\ Styled(text, TRUE) = << "c", "d" >>
  /\ Styled(text, FALSE) = << "a", "b", "e", "f", "g", "h", "i" >>

====
